---- MODULE Spec2Model ----
(***************************************************************************)
(* Source-resolution pipeline of PicSourcer: SourceBot.handle_channel_post *)
(* (src/bot.py), ImageSearcher.search_image / handle_bot_response          *)
(* (src/image_search.py) and TelegramMTProtoClient (src/telegram_client.py)*)
(* as one state machine.  Every coroutine is cut at its await points: the   *)
(* code between two awaits runs without interleaving on the asyncio loop.   *)
(* ImageSearcher._extract_source_url and                                   *)
(* SourceBot.escape_markdown_v2_preserve_links are pure functions of a text *)
(* and have a specification each (ExtractSpec, EscapeSpec) that runs them   *)
(* step by step on every text of a bounded set.                             *)
(***************************************************************************)
EXTENDS Integers, Sequences, FiniteSets, TLC

\* ---------------------------------------------------------------- bounds
NumMessages == 1     \* message ids of the monitored channel
NumWorkers  == 2     \* handler coroutines the application could hold
MaxQueue    == 1     \* events waiting in the update queue
MaxEvents   == 2     \* events the channel delivers in all
MaxTime     == 22    \* last value of the loop clock
MaxMessage  == 3     \* words and line breaks of a reply text
MaxCaption  == 4     \* characters of a caption
MaxOriginal == 2     \* characters of a caption that gets a link block
MaxHandled  == 3     \* channel posts handled between start and exit

\* ------------------------------------------------------ program constants
None                == 0     \* Python None (and the falsy 0 / 0.0)
SOURCE_WAIT_TIMEOUT == 8
MinSearchInterval   == 2
PollInterval        == 1
StartTime           == 2     \* SourceBot.start_time, wall clock at run()
NoText              == "None"  \* Python None where a text is expected

\* one channel, whose membership of the monitored and of the stopped set
\* changes; its posts differ by message id
Channels   == {1}
MessageIds == 1..NumMessages
Posts      == Channels \X MessageIds
Workers    == 1..NumWorkers
\* message.date of an event: before the process start, or not before it
Dates      == {StartTime - 1, StartTime}
\* reply texts by what the coordinator does with them: a text from which
\* _extract_source_url yields a URL, one from which it yields nothing, an
\* empty text and one longer than 4096 characters
Texts      == {"url", "nourl", "empty", "toolong"}
PermOutcomes == {"ok", "denied", "error"}
EditOutcomes == {"applied", "not_modified", "no_rights", "not_found", "other"}

VARIABLES
    now,                   \* asyncio loop clock
    queue,                 \* Application.update_queue: channel post events
    delivered,             \* number of events delivered so far
    human_edits,           \* posts for which a human edit event was delivered
    is_paused, stopped_channels, MONITORED_CHANNELS, edited_posts,
    task,                  \* handle_channel_post coroutines in flight
    last_response, last_response_time, waiting_for_response,
    current_search_id,
    slot_src,              \* reply-target id of the text in last_response
    last_search_time,
    mt_waiting_for_response, mt_last_sent_message_id,
    next_message_id,       \* id the lookup chat gives the next forwarded image
    intake,                \* the decision of the last intake
    rewrites,              \* per post: caption rewrites applied so far
    edit_ok,               \* posts whose edit was applied or not modified
    \* _extract_source_url at work on one reply
    message, lines, found_urls, source_url, x_pc,
    \* escape_markdown_v2_preserve_links at work on one caption
    original_caption, links, escaped_text, e_pc,
    \* the caption build of handle_channel_post at work on one search result
    source, new_caption, pass,
    \* SourceBot.run from start to exit
    run_pc,                \* position in run
    application,           \* self.application: "none" or "built"
    attempt,               \* loop variable of TelegramMTProtoClient.start
    connects,              \* calls of client.connect so far
    slept,                 \* seconds start has slept between attempts
    connected,             \* client.is_connected()
    disconnect_invoked,    \* mtproto_client.disconnect was called by cleanup
    shutdown_event,        \* self.shutdown_event is set
    handled,               \* channel posts given to handle_channel_post
    exit_status,           \* status the process ends with
    \* the text the transport last handed to ImageSearcher.handle_bot_response
    message_in,
    \* commands sent to the bot that wait in the update queue
    pending,
    \* message.caption of a post, and the position of the caption read
    caption, t_pc,
    \* handle_channel_post's bot_member and image_data
    bot_member, image_data

envVars      == <<queue, delivered, human_edits>>
botVars      == <<is_paused, stopped_channels, MONITORED_CHANNELS>>
searcherVars == <<last_response, last_response_time, waiting_for_response,
                  current_search_id, slot_src>>
mtVars       == <<mt_waiting_for_response, mt_last_sent_message_id>>
xVars        == <<message, lines, found_urls, source_url, x_pc>>
eVars        == <<original_caption, links, escaped_text, e_pc>>
rVars        == <<source, new_caption, pass>>
cVars        == <<message_in, pending>>
tVars        == <<caption, t_pc, bot_member, image_data>>
textVars     == <<xVars, eVars, rVars, cVars, tVars>>
runVars      == <<run_pc, application, attempt, connects, slept, connected,
                  disconnect_invoked, shutdown_event, handled, exit_status>>
vars == <<now, queue, delivered, human_edits, is_paused, stopped_channels,
          MONITORED_CHANNELS, edited_posts, task, last_response,
          last_response_time, waiting_for_response, current_search_id,
          slot_src, last_search_time, mt_waiting_for_response,
          mt_last_sent_message_id, next_message_id, intake, rewrites, edit_ok,
          textVars, runVars>>

IdleTask == [pc |-> "idle", post |-> <<0, 0>>, wake |-> 0, issued |-> 0,
             search_start_time |-> 0, start_time |-> 0, sent |-> 0]

\* PostEvent of the ChannelEventSource.  The handler is registered for
\* channel photos and for edited channel posts, so a new post that reaches
\* it carries a photo.
Events == {ev \in [post : Posts, is_edit : BOOLEAN, photo : BOOLEAN,
                   date : Dates] : ev.is_edit \/ ev.photo}

\* the pipeline after SourceBot.__init__, ImageSearcher.__init__ and
\* TelegramMTProtoClient.__init__
PipelineInit ==
    /\ now = 1
    /\ queue = <<>>
    /\ delivered = 0
    /\ human_edits = {}
    /\ is_paused = FALSE
    /\ stopped_channels = {}
    /\ MONITORED_CHANNELS \in SUBSET Channels
    /\ edited_posts = {}
    /\ task = [h \in Workers |-> IdleTask]
    /\ last_response = NoText
    /\ last_response_time = None
    /\ waiting_for_response = FALSE
    /\ current_search_id = None
    /\ slot_src = None
    /\ last_search_time = 0
    /\ mt_waiting_for_response = FALSE
    /\ mt_last_sent_message_id = None
    /\ next_message_id = 1
    /\ intake = "none"
    /\ rewrites = [p \in Posts |-> 0]
    /\ edit_ok = {}

\* no reply is being parsed
ExtractorOff ==
    /\ message = <<>>
    /\ lines = <<>>
    /\ found_urls = <<>>
    /\ source_url = <<>>
    /\ x_pc = "off"

\* no caption is being escaped
EscaperOff ==
    /\ original_caption = <<>>
    /\ links = <<>>
    /\ escaped_text = <<>>
    /\ e_pc = "off"

\* exit_status of a process that has not ended
Running == -1

NoSource == [source_url |-> <<>>, author_nickname |-> <<>>]

RewriterOff ==
    /\ source = NoSource
    /\ new_caption = <<>>
    /\ pass = 0

\* run is not followed: the pipeline is taken while run_polling is at work
RunOff ==
    /\ run_pc = "off"
    /\ application = "built"
    /\ attempt = 0
    /\ connects = 0
    /\ slept = 0
    /\ connected = TRUE
    /\ disconnect_invoked = FALSE
    /\ shutdown_event = FALSE
    /\ handled = 0
    /\ exit_status = Running

\* the callback has not been called
CallbackOff == message_in = NoText /\ pending = <<>>

\* the permission check and the download have not been called
FetchOff == bot_member = "unset" /\ image_data = "unset"

\* no caption is being read
TruncatorOff == caption = <<>> /\ t_pc = "off" /\ FetchOff

Init ==
    /\ PipelineInit
    /\ ExtractorOff /\ EscaperOff /\ RewriterOff /\ RunOff /\ CallbackOff
    /\ TruncatorOff

\* ------------------------------------------------------------ dispatching
Active(h) == task[h].pc # "idle"

\* the application built with concurrent_updates on: a handler is started for
\* every update as it arrives
ConcurrentUpdates == TRUE

\* Application.builder().token(...).build() leaves concurrent_updates off and
\* the handlers are registered blocking: the application awaits one handler
\* to its end before it takes the next update from the queue.
DispatcherFree == \A h \in Workers : ~Active(h)

FreeWorker == CHOOSE h \in Workers :
                  /\ ~Active(h)
                  /\ \A g \in Workers : ~Active(g) => h <= g

SetTask(h, t) == task' = [task EXCEPT ![h] = t]

\* ChannelEventSource: a new or edited channel post arrives in the queue.
\* An edit of a post this process has not rewritten is a human edit.
Deliver(ev) ==
    /\ Len(queue) < MaxQueue
    /\ delivered < MaxEvents
    /\ queue' = Append(queue, ev)
    /\ delivered' = delivered + 1
    /\ human_edits' = IF ev.is_edit /\ ev.post \notin edited_posts
                      THEN human_edits \cup {ev.post} ELSE human_edits
    /\ UNCHANGED <<now, botVars, edited_posts, task, searcherVars,
                   last_search_time, mtVars, next_message_id, intake,
                   rewrites, edit_ok,
                   textVars, runVars>>

\* ------------------------------------------------------- PostIntakeFilter
\* an intake that does not consult the stopped set
IntakeFilterIgnoresStopped(ev) ==
    IF is_paused THEN "paused"
    ELSE IF StartTime # None /\ ev.date # None /\ ev.date < StartTime
         THEN "old"
    ELSE IF ev.post[1] \notin MONITORED_CHANNELS THEN "unmonitored"
    ELSE IF ~ev.photo THEN "no_photo"
    ELSE IF ev.post \in edited_posts THEN "already_edited"
    ELSE IF ev.is_edit /\ ev.post \notin edited_posts THEN "manual_edit"
    ELSE "admit"

\* handle_channel_post from its entry to the manual-edit check: the reason
\* the event is rejected for, or "admit".
IntakeFilter(ev) ==
    IF is_paused THEN "paused"
    ELSE IF ev.post[1] \in stopped_channels THEN "stopped"
    ELSE IF StartTime # None /\ ev.date # None /\ ev.date < StartTime
         THEN "old"
    ELSE IF ev.post[1] \notin MONITORED_CHANNELS THEN "unmonitored"
    ELSE IF ~ev.photo THEN "no_photo"
    ELSE IF ev.post \in edited_posts THEN "already_edited"
    ELSE IF ev.is_edit /\ ev.post \notin edited_posts THEN "manual_edit"
    ELSE "admit"

\* a filter that takes a post out of the ledger when an event for it comes
\* again
LedgerForgetsSeen(ev, reason) ==
    IF reason = "manual_edit" THEN edited_posts \cup {ev.post}
    ELSE IF reason = "already_edited" THEN edited_posts \ {ev.post}
    ELSE edited_posts

\* a filter that enters every rejected post in the ledger
LedgerMarksEveryRejected(ev, reason) ==
    IF reason # "admit" THEN edited_posts \cup {ev.post} ELSE edited_posts

\* a filter that enters a post in the ledger as soon as it is admitted
LedgerMarksAdmitted(ev, reason) ==
    IF reason \in {"manual_edit", "admit"} THEN edited_posts \cup {ev.post}
    ELSE edited_posts

\* the ledger as the intake leaves it: the post of a manual edit is added
\* ("respect manual edits"), nothing else is written
LedgerAfterIntake(ev, reason) ==
    IF reason = "manual_edit" THEN edited_posts \cup {ev.post}
    ELSE edited_posts

\* handle_channel_post up to the call of search_image: intake, the
\* permission check (get_chat_member) and the image download.
HandleChannelPost(h) ==
    /\ queue # <<>>
    /\ DispatcherFree
    /\ \E g \in Workers : ~Active(g)
    /\ h = FreeWorker
    /\ LET ev     == Head(queue)
           reason == IntakeFilter(ev)
       IN  /\ intake' = reason
           /\ edited_posts' = LedgerAfterIntake(ev, reason)
           /\ IF reason = "admit"
              THEN \E perm \in PermOutcomes, dl \in BOOLEAN :
                      IF perm = "ok" /\ dl
                      THEN SetTask(h, [IdleTask EXCEPT !.pc = "downloaded",
                                                       !.post = ev.post])
                      ELSE UNCHANGED task
              ELSE UNCHANGED task
    /\ queue' = Tail(queue)
    /\ UNCHANGED <<now, delivered, human_edits, botVars, searcherVars,
                   last_search_time, mtVars, next_message_id, rewrites, edit_ok,
                   textVars, runVars>>

\* ------------------------------------------------------ SearchCoordinator
\* ImageSearcher._reset_state
ResetState ==
    /\ last_response' = NoText
    /\ last_response_time' = None
    /\ waiting_for_response' = FALSE
    /\ current_search_id' = None
    /\ slot_src' = None

\* an except branch that returns without _reset_state
SearchFailsNoReset(h) ==
    /\ UNCHANGED searcherVars
    /\ SetTask(h, IdleTask)

\* a handler that goes on to edit_message_caption when search_image has
\* returned None
SearchFailsThenEdits(h) ==
    /\ ResetState
    /\ SetTask(h, [task[h] EXCEPT !.pc = "editing"])

\* an exception that leaves search_image and handle_channel_post uncaught
SearchFailsUncaught(h) ==
    /\ ResetState
    /\ SetTask(h, [task[h] EXCEPT !.pc = "raised"])

\* search_image's except branch, then its caller's "no source" branch: the
\* handler logs and returns.
SearchFails(h) ==
    /\ ResetState
    /\ SetTask(h, IdleTask)

\* a rate limit that keeps one time unit between two searches
RateLimitWaitOne ==
    IF now - last_search_time < PollInterval
    THEN PollInterval - (now - last_search_time)
    ELSE 0

\* "Basic rate limiting": the time search_image sleeps before it forwards
RateLimitWait ==
    IF now - last_search_time < MinSearchInterval
    THEN MinSearchInterval - (now - last_search_time)
    ELSE 0

\* search_image from its entry to its first await: the state reset, the
\* token and the rate limit.
SearchEntry(h) ==
    /\ task[h].pc = "downloaded"
    /\ last_response' = NoText
    /\ last_response_time' = None
    /\ slot_src' = None
    /\ current_search_id' = h        \* id(image_data)
    /\ IF RateLimitWait > 0
       THEN /\ waiting_for_response' = FALSE
            /\ SetTask(h, [task[h] EXCEPT !.pc = "rate_sleep",
                                          !.wake = now + RateLimitWait])
       ELSE /\ waiting_for_response' = TRUE
            /\ SetTask(h, [task[h] EXCEPT !.pc = "auth"])
    /\ UNCHANGED <<now, envVars, botVars, edited_posts, last_search_time,
                   mtVars, next_message_id, intake, rewrites, edit_ok,
                   textVars, runVars>>

\* the rate-limit sleep ends: the request is marked outstanding and
\* send_image_to_bot is entered.
RateLimitWake(h) ==
    /\ task[h].pc = "rate_sleep"
    /\ now >= task[h].wake
    /\ waiting_for_response' = TRUE
    /\ SetTask(h, [task[h] EXCEPT !.pc = "auth"])
    /\ UNCHANGED <<now, envVars, botVars, edited_posts, last_response,
                   last_response_time, current_search_id, slot_src,
                   last_search_time, mtVars, next_message_id, intake,
                   rewrites, edit_ok,
                   textVars, runVars>>

\* send_image_to_bot: is_authenticated() returns.
IsAuthenticatedReturn(h) ==
    /\ task[h].pc = "auth"
    /\ \E ok \in BOOLEAN :
          IF ok
          THEN /\ mt_waiting_for_response' = FALSE
               /\ mt_last_sent_message_id' = None
               /\ SetTask(h, [task[h] EXCEPT !.pc = "upload"])
               /\ UNCHANGED searcherVars
          ELSE /\ SearchFails(h)
               /\ UNCHANGED mtVars
    /\ UNCHANGED <<now, envVars, botVars, edited_posts, last_search_time,
                   next_message_id, intake, rewrites, edit_ok,
                   textVars, runVars>>

\* send_image_to_bot: upload_file returns and send_message is issued.
UploadReturn(h) ==
    /\ task[h].pc = "upload"
    /\ \E ok \in BOOLEAN :
          IF ok
          THEN /\ SetTask(h, [task[h] EXCEPT !.pc = "send", !.issued = now])
               /\ UNCHANGED <<searcherVars, mtVars>>
          ELSE /\ mt_waiting_for_response' = FALSE
               /\ mt_last_sent_message_id' = None
               /\ SearchFails(h)
    /\ UNCHANGED <<now, envVars, botVars, edited_posts, last_search_time,
                   next_message_id, intake, rewrites, edit_ok,
                   textVars, runVars>>

\* _extract_source_url, by the class of the text
ExtractSourceUrl(text) == IF text = "url" THEN "url" ELSE NoText

\* a polling test that takes whatever text is buffered
PollAcceptsAnyBuffered(search_start_time) ==
    /\ last_response # NoText
    /\ last_response_time # None

\* a polling test with the comparison turned round
PollAcceptsOlder(search_start_time) ==
    /\ last_response # NoText
    /\ last_response_time # None
    /\ last_response_time <= search_start_time

\* the test of the polling loop
PollAccepts(search_start_time) ==
    /\ last_response # NoText
    /\ last_response_time # None
    /\ last_response_time >= search_start_time

\* one pass of the polling loop body at the current time
PollOnce(h, t) ==
    IF PollAccepts(t.search_start_time)
       /\ ExtractSourceUrl(last_response) # NoText
    THEN SetTask(h, [t EXCEPT !.pc = "author"])
    ELSE SetTask(h, [t EXCEPT !.pc = "poll_sleep",
                              !.wake = now + PollInterval])

\* send_image_to_bot: send_message returns (the round trip to the server
\* takes time); search_image records the submission time and runs the first
\* pass of the polling loop.
SendReturn(h) ==
    /\ task[h].pc = "send"
    /\ now > task[h].issued
    /\ \E ok \in BOOLEAN :
          IF ok
          THEN /\ mt_last_sent_message_id' = next_message_id
               /\ mt_waiting_for_response' = TRUE
               /\ next_message_id' = next_message_id + 1
               /\ last_search_time' = now
               /\ PollOnce(h, [task[h] EXCEPT !.search_start_time = now,
                                              !.start_time = now,
                                              !.sent = next_message_id])
               /\ UNCHANGED searcherVars
          ELSE /\ mt_waiting_for_response' = FALSE
               /\ mt_last_sent_message_id' = None
               /\ SearchFails(h)
               /\ UNCHANGED <<next_message_id, last_search_time>>
    /\ UNCHANGED <<now, envVars, botVars, edited_posts, intake, rewrites,
                   edit_ok,
                   textVars, runVars>>

\* a loop condition with the spacing of two searches as its limit
WindowOpenWrongLimit(start_time) == now - start_time < MinSearchInterval

\* a loop condition that is off by one
WindowOpenInclusive(start_time) == now - start_time <= SOURCE_WAIT_TIMEOUT

\* the condition of the polling loop
WindowOpen(start_time) == now - start_time < SOURCE_WAIT_TIMEOUT

\* the polling loop after a sleep of one time unit
PollWake(h) ==
    /\ task[h].pc = "poll_sleep"
    /\ now >= task[h].wake
    /\ IF WindowOpen(task[h].start_time)
       THEN /\ PollOnce(h, task[h])
            /\ UNCHANGED searcherVars
       ELSE SearchFails(h)
    /\ UNCHANGED <<now, envVars, botVars, edited_posts, last_search_time,
                   mtVars, next_message_id, intake, rewrites, edit_ok,
                   textVars, runVars>>

\* extract_author_nickname returns: search_image resets its state and
\* returns the source; the handler builds the caption and calls
\* edit_message_caption.
AuthorReturn(h) ==
    /\ task[h].pc = "author"
    /\ ResetState
    /\ SetTask(h, [task[h] EXCEPT !.pc = "editing"])
    /\ UNCHANGED <<now, envVars, botVars, edited_posts, last_search_time,
                   mtVars, next_message_id, intake, rewrites, edit_ok,
                   textVars, runVars>>

\* a finalizer that marks the ledger after an applied edit alone
MarksAppliedOnly(o) == o = "applied"

\* a finalizer that marks the ledger in its "not modified" branch alone
MarksNotModifiedOnly(o) == o = "not_modified"

\* a finalizer that marks the ledger whatever CaptionEditor reports
MarksEveryOutcome(o) == TRUE

\* the pipeline finalizer: the CaptionEditor outcomes that mark the ledger
MarksEdited(o) == o \in {"applied", "not_modified"}

\* edit_message_caption returns or raises.
EditReturn(h) ==
    /\ task[h].pc = "editing"
    /\ \E o \in EditOutcomes :
          /\ rewrites' = IF o = "applied"
                         THEN [rewrites EXCEPT ![task[h].post] = @ + 1]
                         ELSE rewrites
          /\ edit_ok' = IF o \in {"applied", "not_modified"}
                        THEN edit_ok \cup {task[h].post} ELSE edit_ok
          /\ edited_posts' = IF MarksEdited(o)
                             THEN edited_posts \cup {task[h].post}
                             ELSE edited_posts
    /\ SetTask(h, IdleTask)
    /\ UNCHANGED <<now, envVars, botVars, searcherVars, last_search_time,
                   mtVars, next_message_id, intake, textVars, runVars>>

\* -------------------------------------------------------- reply correlation
\* a callback without the test of the text
HandleBotResponseStoresAny(text, src) ==
    IF ~waiting_for_response \/ current_search_id = None
    THEN UNCHANGED searcherVars
    ELSE /\ last_response' = text
         /\ last_response_time' = now
         /\ waiting_for_response' = FALSE
         /\ slot_src' = src
         /\ UNCHANGED current_search_id

\* a callback that stores a valid text whether or not a reply is outstanding
HandleBotResponseOverwrites(text, src) ==
    IF text \in {"empty", "toolong"}
    THEN UNCHANGED searcherVars
    ELSE IF current_search_id = None
    THEN UNCHANGED searcherVars
    ELSE /\ last_response' = text
         /\ last_response_time' = now
         /\ waiting_for_response' = FALSE
         /\ slot_src' = src
         /\ UNCHANGED current_search_id

\* ImageSearcher.handle_bot_response
HandleBotResponse(text, src) ==
    IF text \in {"empty", "toolong"}
    THEN UNCHANGED searcherVars
    ELSE IF ~waiting_for_response \/ current_search_id = None
    THEN UNCHANGED searcherVars
    ELSE /\ last_response' = text
         /\ last_response_time' = now
         /\ waiting_for_response' = FALSE
         /\ slot_src' = src
         /\ UNCHANGED current_search_id

\* a transport guard that does not compare the reply target
TransportAcceptsAnyReply(reply_to) == mt_waiting_for_response

\* the guard of the transport's NewMessage handler
TransportAccepts(reply_to) ==
    /\ mt_waiting_for_response
    /\ reply_to = mt_last_sent_message_id

\* TelegramMTProtoClient.start.handle_bot_response: a message from the
\* lookup account arrives; reply_to is the id of the message it answers
\* (None: it answers nothing).
BotReply(reply_to) ==
    /\ reply_to < next_message_id
    /\ IF TransportAccepts(reply_to)
       THEN /\ \E text \in Texts : HandleBotResponse(text, reply_to)
            /\ mt_waiting_for_response' = FALSE
            /\ mt_last_sent_message_id' = None
       ELSE UNCHANGED <<searcherVars, mtVars>>
    /\ UNCHANGED <<now, envVars, botVars, edited_posts, task,
                   last_search_time, next_message_id, intake, rewrites,
                   edit_ok,
                   textVars, runVars>>

\* The same handler in a process whose one search has forwarded its image
\* and sleeps in the polling loop, with the text of the message kept.
WaitingTask == [IdleTask EXCEPT !.pc = "poll_sleep", !.post = <<1, 1>>,
                                !.wake = 4, !.issued = 2,
                                !.search_start_time = 3, !.start_time = 3,
                                !.sent = 1]

ReplyInit ==
    /\ now = 3
    /\ queue = <<>>
    /\ delivered = 1
    /\ human_edits = {}
    /\ is_paused = FALSE
    /\ stopped_channels = {}
    /\ MONITORED_CHANNELS = Channels
    /\ edited_posts = {}
    /\ task = [h \in Workers |-> IF h = 1 THEN WaitingTask ELSE IdleTask]
    /\ last_response = NoText
    /\ last_response_time = None
    /\ waiting_for_response = TRUE
    /\ current_search_id = 1
    /\ slot_src = None
    /\ last_search_time = 3
    /\ mt_waiting_for_response = TRUE
    /\ mt_last_sent_message_id = 1
    /\ next_message_id = 2
    /\ intake = "admit"
    /\ rewrites = [p \in Posts |-> 0]
    /\ edit_ok = {}
    /\ ExtractorOff /\ EscaperOff /\ RewriterOff /\ RunOff /\ CallbackOff
    /\ TruncatorOff

BotReplyWith(text, reply_to) ==
    /\ reply_to < next_message_id
    /\ IF TransportAccepts(reply_to)
       THEN /\ message_in' = text
            /\ HandleBotResponse(text, reply_to)
            /\ mt_waiting_for_response' = FALSE
            /\ mt_last_sent_message_id' = None
       ELSE UNCHANGED <<searcherVars, mtVars, message_in>>
    /\ UNCHANGED <<now, envVars, botVars, edited_posts, task,
                   last_search_time, next_message_id, intake, rewrites,
                   edit_ok, pending, xVars, eVars, rVars, runVars,
                   tVars>>

\* an authenticated user sends /pause or /stop for the channel: the update
\* is queued behind whatever the application is handling
Commands == {"pause", "stop"}

SendCommand(c) ==
    /\ Len(pending) < MaxQueue
    /\ pending' = Append(pending, c)
    /\ UNCHANGED <<now, envVars, botVars, edited_posts, task, searcherVars,
                   last_search_time, mtVars, next_message_id, intake,
                   rewrites, edit_ok, message_in, xVars, eVars, rVars,
                   runVars, tVars>>

\* the application takes the command from the queue: pause_bot, stop_channel
HandleCommand ==
    /\ DispatcherFree
    /\ pending # <<>>
    /\ pending' = Tail(pending)
    /\ IF Head(pending) = "pause"
       THEN /\ is_paused' = ~is_paused
            /\ UNCHANGED stopped_channels
       ELSE /\ stopped_channels' =
                  IF \A c \in Channels : c \in MONITORED_CHANNELS
                  THEN stopped_channels \cup Channels
                  ELSE stopped_channels
            /\ UNCHANGED is_paused
    /\ UNCHANGED <<now, envVars, MONITORED_CHANNELS, edited_posts, task,
                   searcherVars, last_search_time, mtVars, next_message_id,
                   intake, rewrites, edit_ok, message_in, xVars, eVars, rVars,
                   runVars, tVars>>

\* SourceBot.handle_bot_response: a private text message to the bot, from an
\* authenticated user, that replies to SOURCE_MESSAGE_ID.
PrivateReply(text) ==
    /\ DispatcherFree
    /\ HandleBotResponse(text, None)
    /\ UNCHANGED <<now, envVars, botVars, edited_posts, task,
                   last_search_time, mtVars, next_message_id, intake,
                   rewrites, edit_ok,
                   textVars, runVars>>

\* ---------------------------------------------------- administrative commands
PauseBot ==
    /\ DispatcherFree
    /\ is_paused' = ~is_paused
    /\ UNCHANGED <<now, envVars, stopped_channels, MONITORED_CHANNELS,
                   edited_posts, task, searcherVars, last_search_time,
                   mtVars, next_message_id, intake, rewrites, edit_ok,
                   textVars, runVars>>

StopChannel(c) ==
    /\ DispatcherFree
    /\ c \in MONITORED_CHANNELS
    /\ stopped_channels' = stopped_channels \cup {c}
    /\ UNCHANGED <<now, envVars, is_paused, MONITORED_CHANNELS,
                   edited_posts, task, searcherVars, last_search_time,
                   mtVars, next_message_id, intake, rewrites, edit_ok,
                   textVars, runVars>>

ResumeChannel(c) ==
    /\ DispatcherFree
    /\ c \in stopped_channels
    /\ stopped_channels' = stopped_channels \ {c}
    /\ UNCHANGED <<now, envVars, is_paused, MONITORED_CHANNELS,
                   edited_posts, task, searcherVars, last_search_time,
                   mtVars, next_message_id, intake, rewrites, edit_ok,
                   textVars, runVars>>

AddChannel(c) ==
    /\ DispatcherFree
    /\ c \notin MONITORED_CHANNELS
    /\ MONITORED_CHANNELS' = MONITORED_CHANNELS \cup {c}
    /\ UNCHANGED <<now, envVars, is_paused, stopped_channels,
                   edited_posts, task, searcherVars, last_search_time,
                   mtVars, next_message_id, intake, rewrites, edit_ok,
                   textVars, runVars>>

DeleteChannel(c) ==
    /\ DispatcherFree
    /\ c \in MONITORED_CHANNELS
    /\ MONITORED_CHANNELS' = MONITORED_CHANNELS \ {c}
    /\ UNCHANGED <<now, envVars, is_paused, stopped_channels,
                   edited_posts, task, searcherVars, last_search_time,
                   mtVars, next_message_id, intake, rewrites, edit_ok,
                   textVars, runVars>>

\* --------------------------------------------------------------------- time
Sleeping(h) == task[h].pc \in {"rate_sleep", "poll_sleep"}

\* the program reads the clock only to space two forwards, to stamp a
\* submission or a reply, and to end a sleep: time is advanced where one of
\* these can tell the difference.
TimeObserved ==
    \/ \E h \in Workers : Sleeping(h)
    \/ \E h \in Workers : task[h].pc = "send" /\ now = task[h].issued
    \/ DispatcherFree /\ now - last_search_time < MinSearchInterval

\* The loop clock advances; a sleeping coroutine is resumed when its delay
\* has elapsed.
Tick ==
    /\ now < MaxTime
    /\ TimeObserved
    /\ \A h \in Workers : Sleeping(h) => now < task[h].wake
    /\ now' = now + 1
    /\ UNCHANGED <<envVars, botVars, edited_posts, task, searcherVars,
                   last_search_time, mtVars, next_message_id, intake,
                   rewrites, edit_ok,
                   textVars, runVars>>

\* the search that waits, the replies and the commands that reach the
\* process, and the clock
ReplyNext ==
    \/ \E text \in Texts, r \in 0..MaxEvents : BotReplyWith(text, r)
    \/ \E c \in Commands : SendCommand(c)
    \/ HandleCommand
    \/ \E h \in Workers : PollWake(h)
    \/ \E h \in Workers : AuthorReturn(h)
    \/ \E h \in Workers : EditReturn(h)
    \/ Tick

ReplySpec == ReplyInit /\ [][ReplyNext]_vars

\* The second search for a post: the first forwarded message 1 at time 3
\* and ran into its timeout at time 11, the post stayed unmarked, the event
\* was delivered once more and admitted, and the image was forwarded as
\* message 2 at time 12.  The search sleeps in the polling loop.
SecondTask == [IdleTask EXCEPT !.pc = "poll_sleep", !.post = <<1, 1>>,
                               !.wake = 13, !.issued = 11,
                               !.search_start_time = 12, !.start_time = 12,
                               !.sent = 2]

\* nothing has arrived since search_image set the outstanding flag
CleanSlot ==
    /\ last_response = NoText
    /\ last_response_time = None
    /\ waiting_for_response = TRUE
    /\ slot_src = None

\* the reply to message 1 arrived at time 11, while the second search
\* awaited is_authenticated: the transport still held message 1 as the last
\* forwarded one, and the coordinator had set its flag already
StaleSlot ==
    /\ last_response = "url"
    /\ last_response_time = 11
    /\ waiting_for_response = FALSE
    /\ slot_src = 1

SecondInit ==
    /\ now = 12
    /\ queue = <<>>
    /\ delivered = 2
    /\ human_edits = {}
    /\ is_paused = FALSE
    /\ stopped_channels = {}
    /\ MONITORED_CHANNELS = Channels
    /\ edited_posts = {}
    /\ task = [h \in Workers |-> IF h = 1 THEN SecondTask ELSE IdleTask]
    /\ CleanSlot \/ StaleSlot
    /\ current_search_id = 1
    /\ last_search_time = 12
    /\ mt_waiting_for_response = TRUE
    /\ mt_last_sent_message_id = 2
    /\ next_message_id = 3
    /\ intake = "admit"
    /\ rewrites = [p \in Posts |-> 0]
    /\ edit_ok = {}
    /\ ExtractorOff /\ EscaperOff /\ RewriterOff /\ RunOff /\ CallbackOff
    /\ TruncatorOff

SecondSearchSpec == SecondInit /\ [][ReplyNext]_vars

\* --------------------------------------------------------- SourceExtractor
\* A reply text is a sequence of whitespace-separated words and line breaks;
\* a word is a sequence of pieces of text, small enough that every test of
\* the code (a character stripped, a prefix, a domain found inside the URL)
\* falls on piece boundaries.
NewLine == <<"\n">>
Space   == " "

\* config.SOURCE_DOMAINS, in the order of the dict
SOURCE_DOMAINS ==
    << <<"e621", {<<"e621.net">>}>>,
       <<"furaffinity", {<<"furaffinity.net">>, <<"www.", "furaffinity.net">>,
                         <<"beta.", "furaffinity.net">>}>>,
       <<"twitter", {<<"twitter.com">>, <<"x.com">>,
                     <<"twitter.com", "/i/web">>,
                     <<"mobile.", "twitter.com">>}>>,
       <<"bluesky", {<<"bsky.app">>, <<"bsky.social">>}>> >>

Platforms == {SOURCE_DOMAINS[i][1] : i \in DOMAIN SOURCE_DOMAINS}
NoUrl     == <<>>         \* '' in found_urls, None as the result

\* the words of the replies that are tried
Words ==
    { <<"https://", "e621.net", "/posts/1">>,
      <<"(", "https://", "e621.net", "/posts/2", ")", ".">>,
      <<"[", "src", "]", "(", "https://", "e621.net", "/posts/3", ")">>,
      <<"https://", "E621.NET", "/posts/4">>,
      <<"https://", "e621.net", "/posts", "\\", "_5">>,
      <<"https://", "furaffinity.net", "/view/1">>,
      <<"[", "src", "]", "(", "https://", "www.", "furaffinity.net",
        "/view/2", ")">>,
      <<"https://", "x.com", "/a/1">>,
      <<"[", "src", "]", "(", "https://", "twitter.com", "/i/web", "/2", ")">>,
      <<"https://", "bsky.app", "/p/1">>,
      <<"https://", "fede", "x.com", "/track">>,
      <<"http://", "example.org", "/?q=", "e621.net">>,
      <<"ftp://", "e621.net", "/x">>,
      <<"hello">> }

\* str.lower() of one piece
Lower(piece) == IF piece = "E621.NET" THEN "e621.net" ELSE piece
LowerAll(u)  == [i \in DOMAIN u |-> Lower(u[i])]

\* "domain in url": the domain occurs somewhere inside the URL
Contains(u, d) ==
    \E i \in 0..(Len(u) - Len(d)) : \A j \in 1..Len(d) : u[i + j] = d[j]

\* url.startswith(('http://', 'https://'))
StartsWithHttp(u) == u # <<>> /\ u[1] \in {"http://", "https://"}

\* "for platform, domains in SOURCE_DOMAINS.items(): if any(domain in
\* url.lower() ...): ... break": the first platform of the table one of
\* whose domains occurs in the URL, or "none"
PlatformOf(u) ==
    LET hit == {i \in DOMAIN SOURCE_DOMAINS :
                   \E d \in SOURCE_DOMAINS[i][2] : Contains(LowerAll(u), d)}
    IN  IF hit = {} THEN "none"
        ELSE SOURCE_DOMAINS[CHOOSE i \in hit : \A k \in hit : i <= k][1]

\* word.strip(',.!?()[]{}').replace('\\', '')
StripChars == {",", ".", "!", "?", "(", ")", "[", "]", "{", "}"}
RECURSIVE StripLeft(_, _)
StripLeft(w, cs) ==
    IF w # <<>> /\ w[1] \in cs THEN StripLeft(Tail(w), cs) ELSE w
RECURSIVE StripRight(_, _)
StripRight(w, cs) ==
    IF w # <<>> /\ w[Len(w)] \in cs
    THEN StripRight(SubSeq(w, 1, Len(w) - 1), cs) ELSE w
Strip(w, cs) == StripRight(StripLeft(w, cs), cs)
CleanWord(w) == SelectSeq(Strip(w, StripChars), LAMBDA c : c # "\\")

\* the line as one text: its words with a space between them
RECURSIVE JoinWords(_)
JoinWords(line) ==
    IF line = <<>> THEN <<>>
    ELSE IF Len(line) = 1 THEN line[1]
    ELSE line[1] \o <<Space>> \o JoinWords(Tail(line))

\* re.search(r'\[([^\]]+)\]\(([^)]+)\)', line): group 2 of the leftmost
\* match, or NoUrl when nothing matches
MarkdownAt(t, i) ==
    LET closes == {j \in (i + 1)..Len(t) : t[j] = "]"}
        j      == CHOOSE j \in closes : \A k \in closes : j <= k
        ends   == {k \in (j + 2)..Len(t) : t[k] = ")"}
        e      == CHOOSE k \in ends : \A m \in ends : k <= m
    IN  IF t[i] = "[" /\ closes # {} /\ j >= i + 2 /\ j < Len(t)
           /\ t[j + 1] = "(" /\ ends # {} /\ e >= j + 3
        THEN SubSeq(t, j + 2, e - 1)
        ELSE NoUrl
MarkdownMatch(line) ==
    LET t    == JoinWords(line)
        hits == {i \in 1..Len(t) : MarkdownAt(t, i) # NoUrl}
    IN  IF hits = {} THEN NoUrl
        ELSE Strip(MarkdownAt(t, CHOOSE i \in hits : \A k \in hits : i <= k),
                   {Space})

\* found_urls[platform] = url, for a URL with a scheme and a platform
Record(found, u) ==
    IF StartsWithHttp(u) /\ PlatformOf(u) # "none"
    THEN [found EXCEPT ![PlatformOf(u)] = u]
    ELSE found

\* "Then try to find regular URLs": the words of the line, left to right
RECURSIVE ScanWords(_, _)
ScanWords(found, line) ==
    IF line = <<>> THEN found
    ELSE ScanWords(Record(found, CleanWord(line[1])), Tail(line))

\* the body of "for line in lines"
ScanOneLine(found, line) ==
    ScanWords(IF MarkdownMatch(line) # NoUrl
              THEN Record(found, MarkdownMatch(line)) ELSE found, line)

\* a selection that looks at the platforms in the order Twitter first
SelectTwitterFirst(found) ==
    IF found["twitter"] # NoUrl THEN found["twitter"]
    ELSE IF found["e621"] # NoUrl THEN found["e621"]
    ELSE IF found["furaffinity"] # NoUrl THEN found["furaffinity"]
    ELSE found["bluesky"]

\* "Prioritize e621 if available", then FurAffinity, Twitter, Bluesky
SelectByPriority(found) ==
    IF found["e621"] # NoUrl THEN found["e621"]
    ELSE IF found["furaffinity"] # NoUrl THEN found["furaffinity"]
    ELSE IF found["twitter"] # NoUrl THEN found["twitter"]
    ELSE found["bluesky"]

\* message.split('\n'), the empty lines dropped
RECURSIVE SplitLines(_, _)
SplitLines(msg, cur) ==
    IF msg = <<>> THEN (IF cur = <<>> THEN <<>> ELSE <<cur>>)
    ELSE IF msg[1] = NewLine
         THEN (IF cur = <<>> THEN <<>> ELSE <<cur>>)
              \o SplitLines(Tail(msg), <<>>)
    ELSE SplitLines(Tail(msg), Append(cur, msg[1]))

\* the reply texts that are tried: up to MaxMessage words and line breaks
Messages == UNION {[1..n -> Words \cup {NewLine}] : n \in 1..MaxMessage}

\* _extract_source_url is called with a reply text
ExtractInit ==
    /\ PipelineInit
    /\ MONITORED_CHANNELS = {}
    /\ EscaperOff
    /\ RewriterOff
    /\ RunOff
    /\ CallbackOff
    /\ TruncatorOff
    /\ message \in Messages
    /\ lines = <<>>
    /\ found_urls = <<>>
    /\ source_url = NoUrl
    /\ x_pc = "split"

pipelineVars == <<now, envVars, botVars, edited_posts, task, searcherVars,
                  last_search_time, mtVars, next_message_id, intake,
                  rewrites, edit_ok>>

\* the reply is split into its non-empty lines and found_urls is set up
SplitMessage ==
    /\ x_pc = "split"
    /\ lines' = SplitLines(message, <<>>)
    /\ found_urls' = [pl \in Platforms |-> NoUrl]
    /\ x_pc' = "scan"
    /\ UNCHANGED <<message, source_url, eVars, rVars, pipelineVars,
                   runVars, cVars, tVars>>

\* one pass of "for line in lines"
ScanLine ==
    /\ x_pc = "scan"
    /\ lines # <<>>
    /\ found_urls' = ScanOneLine(found_urls, Head(lines))
    /\ lines' = Tail(lines)
    /\ UNCHANGED <<message, source_url, x_pc, eVars, rVars,
                   pipelineVars, runVars, cVars, tVars>>

\* the lines are exhausted: the result is chosen among the platforms
SelectSource ==
    /\ x_pc = "scan"
    /\ lines = <<>>
    /\ source_url' = SelectByPriority(found_urls)
    /\ x_pc' = "done"
    /\ UNCHANGED <<message, lines, found_urls, eVars, rVars,
                   pipelineVars, runVars, cVars, tVars>>

ExtractNext == SplitMessage \/ ScanLine \/ SelectSource

ExtractSpec == ExtractInit /\ [][ExtractNext]_vars

\* --------------------------------------------------------- CaptionRewriter
\* A caption is a sequence of characters.
CaptionChars == {"a", "_", "[", "]", "(", ")", "\\"}
Captions     == UNION {[1..n -> CaptionChars] : n \in 0..MaxCaption}
LineBreak    == "\n"

\* special_chars of escape_markdown_v2 and escape_markdown_v2_preserve_links
\* ("grave" stands for the grave accent)
special_chars ==
    <<"_", "*", "[", "]", "(", ")", "~", "grave", ">", "#", "+", "-", "=",
      "|", "{", "}", ".", "!">>

\* f"LINK_PLACEHOLDER_{i}_"
Digits == <<"0", "1", "2", "3", "4", "5", "6", "7", "8", "9">>
Placeholder(i) == <<"L", "I", "N", "K", "_", "P", "L", "A", "C", "E", "H",
                    "O", "L", "D", "E", "R", "_", Digits[i + 1], "_">>

\* the end of the match of the link pattern (a bracketed label, then a
\* parenthesised URL, both as short as can be) that starts at i, or 0: the
\* label runs to the first "](" and the URL to the first ")" after it, and
\* neither holds a line break
LinkEnd(t, i) ==
    LET mids == {j \in (i + 1)..(Len(t) - 1) :
                    /\ t[j] = "]" /\ t[j + 1] = "("
                    /\ \A k \in (i + 1)..(j - 1) : t[k] # LineBreak}
        j    == CHOOSE j \in mids : \A k \in mids : j <= k
        ends == {k \in (j + 2)..Len(t) :
                    /\ t[k] = ")"
                    /\ \A n \in (j + 2)..(k - 1) : t[n] # LineBreak}
    IN  IF t[i] = "[" /\ mids # {} /\ ends # {}
        THEN CHOOSE k \in ends : \A m \in ends : k <= m
        ELSE 0

\* re.sub(pattern, replace_link, text): the matches from left to right, each
\* put into links and replaced by its placeholder
RECURSIVE SubstituteLinks(_, _)
SubstituteLinks(t, found) ==
    LET starts == {i \in 1..Len(t) : LinkEnd(t, i) # 0}
        i      == CHOOSE i \in starts : \A k \in starts : i <= k
        rest   == SubstituteLinks(SubSeq(t, LinkEnd(t, i) + 1, Len(t)),
                                  Append(found, SubSeq(t, i, LinkEnd(t, i))))
    IN  IF starts = {} THEN [text |-> t, links |-> found]
        ELSE [text  |-> SubSeq(t, 1, i - 1) \o Placeholder(Len(found))
                        \o rest.text,
              links |-> rest.links]

\* str.replace(old, new) on sequences
RECURSIVE ReplaceAll(_, _, _)
ReplaceAll(t, old, new) ==
    IF Len(t) < Len(old) THEN t
    ELSE IF SubSeq(t, 1, Len(old)) = old
         THEN new \o ReplaceAll(SubSeq(t, Len(old) + 1, Len(t)), old, new)
    ELSE <<t[1]>> \o ReplaceAll(Tail(t), old, new)

\* "for char in special_chars: escaped_text = escaped_text.replace(char,
\* f'\\{char}')", from the n-th character of the list on
RECURSIVE EscapeFrom(_, _)
EscapeFrom(t, n) ==
    IF n > Len(special_chars) THEN t
    ELSE EscapeFrom(ReplaceAll(t, <<special_chars[n]>>,
                               <<"\\", special_chars[n]>>), n + 1)

\* SourceBot.escape_markdown_v2
EscapeMarkdownV2(t) == EscapeFrom(t, 1)

RECURSIVE RestoreEscapedFrom(_, _, _)
RestoreEscapedFrom(t, ls, n) ==
    IF n > Len(ls) THEN t
    ELSE RestoreEscapedFrom(
             ReplaceAll(t, EscapeMarkdownV2(Placeholder(n - 1)), ls[n]),
             ls, n + 1)

\* "for i, link in enumerate(links): escaped_text = escaped_text.replace(
\* f'LINK_PLACEHOLDER_{i}_', link)", from the n-th link on
RECURSIVE RestoreFrom(_, _, _)
RestoreFrom(t, ls, n) ==
    IF n > Len(ls) THEN t
    ELSE RestoreFrom(ReplaceAll(t, Placeholder(n - 1), ls[n]), ls, n + 1)

\* escape_markdown_v2_preserve_links is called with a caption
EscapeInit ==
    /\ PipelineInit
    /\ MONITORED_CHANNELS = {}
    /\ ExtractorOff
    /\ RewriterOff
    /\ RunOff
    /\ CallbackOff
    /\ TruncatorOff
    /\ original_caption \in Captions
    /\ links = <<>>
    /\ escaped_text = <<>>
    /\ e_pc = "entry"

\* "if not text: return ''", else the links are replaced by placeholders
ReplaceLinks ==
    /\ e_pc = "entry"
    /\ IF original_caption = <<>>
       THEN /\ e_pc' = "done"
            /\ UNCHANGED <<links, escaped_text>>
       ELSE /\ escaped_text' = SubstituteLinks(original_caption, <<>>).text
            /\ links' = SubstituteLinks(original_caption, <<>>).links
            /\ e_pc' = "escape"
    /\ UNCHANGED <<original_caption, xVars, rVars, pipelineVars,
                   runVars, cVars, tVars>>

\* the special characters are escaped
EscapeSpecialChars ==
    /\ e_pc = "escape"
    /\ escaped_text' = EscapeMarkdownV2(escaped_text)
    /\ e_pc' = "restore"
    /\ UNCHANGED <<original_caption, links, xVars, rVars,
                   pipelineVars, runVars, cVars, tVars>>

\* the placeholders are replaced by the links
RestoreLinks ==
    /\ e_pc = "restore"
    /\ escaped_text' = RestoreFrom(escaped_text, links, 1)
    /\ e_pc' = "done"
    /\ UNCHANGED <<original_caption, links, xVars, rVars,
                   pipelineVars, runVars, cVars, tVars>>

EscapeNext == ReplaceLinks \/ EscapeSpecialChars \/ RestoreLinks

EscapeSpec == EscapeInit /\ [][EscapeNext]_vars

\* The caption build of handle_channel_post: the link block is put after
\* the escaped caption.  A URL and a nickname are sequences of pieces, each
\* a special character or a text without one.
Urls == {<<"https://", "e621", ".", "net", "/posts/123">>,
         <<"https://", "e621", ".", "net", "/posts/1", ")", "x">>}
BLUESKY_GENERIC_ATTRIBUTION == <<"BLUESKY_GENERIC_ATTRIBUTION">>
Nicknames == {<<>>, <<"n", "_">>, BLUESKY_GENERIC_ATTRIBUTION}
\* what search_image returns when it found a source
Sources == [source_url : Urls, author_nickname : Nicknames]
OriginalCaptions ==
    UNION {[1..n -> CaptionChars] : n \in 0..MaxOriginal} \cup {<<"Hello">>}

\* link_text ("Author on Bluesky" stands for the Ukrainian label with its
\* gem, which holds no special character)
LinkText(s) ==
    IF s.author_nickname = BLUESKY_GENERIC_ATTRIBUTION
    THEN <<"*", "Author on Bluesky", "*">>
    ELSE IF s.author_nickname # <<>>
         THEN <<"*", "by", Space>> \o EscapeMarkdownV2(s.author_nickname)
              \o <<"*">>
    ELSE <<"*", "by", Space, "artist", "*">>

\* f"[{link_text}]({escaped_url})"
LinkBlock(s) == <<"[">> \o LinkText(s) \o <<"]", "(">> \o s.source_url
                \o <<")">>

BuildSingleBreak(escaped_caption, s) ==
    IF escaped_caption # <<>>
    THEN escaped_caption \o <<LineBreak>> \o LinkBlock(s)
    ELSE LinkBlock(s)

\* "if escaped_caption: new_caption = ... else: new_caption = ..."
BuildCaption(escaped_caption, s) ==
    IF escaped_caption # <<>>
    THEN escaped_caption \o <<LineBreak, LineBreak>> \o LinkBlock(s)
    ELSE LinkBlock(s)

\* the caption build is entered with a caption and a search result
RewriteInit ==
    /\ PipelineInit
    /\ MONITORED_CHANNELS = {}
    /\ ExtractorOff
    /\ RunOff
    /\ CallbackOff
    /\ TruncatorOff
    /\ original_caption \in OriginalCaptions
    /\ links = <<>>
    /\ escaped_text = <<>>
    /\ e_pc = "entry"
    /\ source \in Sources
    /\ new_caption = <<>>
    /\ pass = 1

\* escape_markdown_v2_preserve_links has returned: new_caption is built
BuildNewCaption ==
    /\ e_pc = "done"
    /\ pass > 0
    /\ new_caption' = BuildCaption(escaped_text, source)
    /\ e_pc' = "built"
    /\ UNCHANGED <<original_caption, links, escaped_text, source, pass,
                   xVars, pipelineVars, runVars, cVars, tVars>>

\* the caption build is entered again, with the caption it built and the
\* same search result
RewriteAgain ==
    /\ e_pc = "built"
    /\ pass = 1
    /\ original_caption' = new_caption
    /\ links' = <<>>
    /\ escaped_text' = <<>>
    /\ e_pc' = "entry"
    /\ pass' = 2
    /\ UNCHANGED <<source, new_caption, xVars, pipelineVars, runVars, cVars,
                   tVars>>

RewriteNext == EscapeNext \/ BuildNewCaption \/ RewriteAgain

RewriteSpec == RewriteInit /\ [][RewriteNext]_vars

\* ------------------------------------------------- reading the post's caption
\* "original_caption = message.caption or ''", then the cut of a caption
\* that is too long.  A caption is the sequence of its characters; the
\* character at place i of a sample is the last digit of i, so that a cut at
\* the wrong place shows in the text as well as in the length.
MaxLength == 1003

CaptionLimit == 1000
KeptChars    == 997
Ellipsis     == <<".", ".", ".">>

CharAt(i) == ToString(i % 10)
SampleCaption(n) == [i \in 1..n |-> CharAt(i)]
RawCaptions == {SampleCaption(n) : n \in 0..MaxLength}

\* the cut that keeps the whole budget and then appends the marker
TruncateKeepsLimit(c) ==
    IF Len(c) > CaptionLimit
    THEN SubSeq(c, 1, CaptionLimit) \o Ellipsis
    ELSE c

\* original_caption[:997] + "..." when len(original_caption) > 1000
Truncate(c) ==
    IF Len(c) > CaptionLimit
    THEN SubSeq(c, 1, KeptChars) \o Ellipsis
    ELSE c

\* a post with a photo has passed the intake: its caption is about to be read
CaptionInit ==
    /\ PipelineInit
    /\ ExtractorOff
    /\ EscaperOff
    /\ RewriterOff
    /\ RunOff
    /\ CallbackOff
    /\ caption \in RawCaptions
    /\ t_pc = "read"
    /\ FetchOff

\* the caption is read and cut; what is left is the text that
\* escape_markdown_v2_preserve_links is given
ReadCaption ==
    /\ t_pc = "read"
    /\ original_caption' = Truncate(caption)
    /\ e_pc' = "entry"
    /\ t_pc' = "cut"
    /\ UNCHANGED <<caption, bot_member, image_data, links, escaped_text,
                   xVars, rVars, pipelineVars, runVars, cVars>>

CaptionNext == ReadCaption

CaptionSpec == CaptionInit /\ [][CaptionNext]_vars

\* ------------------------------------- permission check and image download
\* handle_channel_post between the caption and the call of search_image,
\* for one admitted post, followed by the search and the edit.
BotMembers == {"can_edit", "cannot_edit", "raised"}
ImageData  == {"bytes", "nothing"}

FetchInit ==
    /\ now = StartTime
    /\ queue = <<>>
    /\ delivered = 1
    /\ human_edits = {}
    /\ is_paused = FALSE
    /\ stopped_channels = {}
    /\ MONITORED_CHANNELS = Channels
    /\ edited_posts = {}
    /\ task = [h \in Workers |->
                 IF h = 1 THEN [IdleTask EXCEPT !.pc = "permission",
                                                !.post = <<1, 1>>]
                 ELSE IdleTask]
    /\ last_response = NoText
    /\ last_response_time = None
    /\ waiting_for_response = FALSE
    /\ current_search_id = None
    /\ slot_src = None
    /\ last_search_time = 0
    /\ mt_waiting_for_response = FALSE
    /\ mt_last_sent_message_id = None
    /\ next_message_id = 1
    /\ intake = "admit"
    /\ rewrites = [p \in Posts |-> 0]
    /\ edit_ok = {}
    /\ ExtractorOff /\ EscaperOff /\ RewriterOff /\ RunOff /\ CallbackOff
    /\ TruncatorOff

\* a permission check after which the handler goes on whatever it found
PermissionCheckGoesOn(h) ==
    /\ task[h].pc = "permission"
    /\ bot_member' \in BotMembers
    /\ SetTask(h, [task[h] EXCEPT !.pc = "download"])
    /\ UNCHANGED <<caption, t_pc, image_data, xVars, eVars, rVars, cVars,
                   now, envVars, botVars, edited_posts, searcherVars,
                   last_search_time, mtVars, next_message_id, intake,
                   rewrites, edit_ok, runVars>>

\* get_chat_member returns or raises; the handler returns unless the bot
\* can edit messages
PermissionCheck(h) ==
    /\ task[h].pc = "permission"
    /\ bot_member' \in BotMembers
    /\ IF bot_member' = "can_edit"
       THEN SetTask(h, [task[h] EXCEPT !.pc = "download"])
       ELSE SetTask(h, IdleTask)
    /\ UNCHANGED <<caption, t_pc, image_data, xVars, eVars, rVars, cVars,
                   now, envVars, botVars, edited_posts, searcherVars,
                   last_search_time, mtVars, next_message_id, intake,
                   rewrites, edit_ok, runVars>>

\* download_image returns the image or None
DownloadImage(h) ==
    /\ task[h].pc = "download"
    /\ image_data' \in ImageData
    /\ IF image_data' = "bytes"
       THEN SetTask(h, [task[h] EXCEPT !.pc = "downloaded"])
       ELSE SetTask(h, IdleTask)
    /\ UNCHANGED <<caption, t_pc, bot_member, xVars, eVars, rVars, cVars,
                   now, envVars, botVars, edited_posts, searcherVars,
                   last_search_time, mtVars, next_message_id, intake,
                   rewrites, edit_ok, runVars>>

FetchNext ==
    \/ \E h \in Workers : PermissionCheck(h)
    \/ \E h \in Workers : DownloadImage(h)
    \/ \E h \in Workers : SearchEntry(h)
    \/ \E h \in Workers : IsAuthenticatedReturn(h)
    \/ \E h \in Workers : UploadReturn(h)
    \/ \E h \in Workers : SendReturn(h)
    \/ \E h \in Workers : PollWake(h)
    \/ \E h \in Workers : AuthorReturn(h)
    \/ \E h \in Workers : EditReturn(h)
    \/ \E r \in 0..MaxEvents : BotReply(r)
    \/ Tick

FetchSpec == FetchInit /\ [][FetchNext]_vars

\* ------------------------------------------------------------ SourceBot.run
\* run from its first statement to the end of the process.  A call into a
\* library (the application builder, client.connect, the pid file,
\* run_polling, application.stop) returns or raises.
max_retries == 3
retry_delay == 2

\* the process after SourceBot.__init__, which installs _signal_handler
RunInit ==
    /\ PipelineInit
    /\ MONITORED_CHANNELS = {}
    /\ ExtractorOff
    /\ EscaperOff
    /\ RewriterOff
    /\ CallbackOff
    /\ TruncatorOff
    /\ run_pc = "build"
    /\ application = "none"
    /\ attempt = 0
    /\ connects = 0
    /\ slept = 0
    /\ connected = FALSE
    /\ disconnect_invoked = FALSE
    /\ shutdown_event = FALSE
    /\ handled = 0
    /\ exit_status = Running

\* "except Exception as e: ... sys.exit(1)", then the finally clause
Except ==
    /\ exit_status' = 1
    /\ run_pc' = "cleanup"

\* the application is built and the handlers are added, or the builder raises
BuildApplication ==
    /\ run_pc = "build"
    /\ \/ /\ application' = "built"
          /\ run_pc' = "connect"
          /\ UNCHANGED exit_status
       \/ /\ Except
          /\ UNCHANGED application
    /\ UNCHANGED <<attempt, connects, slept, connected, disconnect_invoked,
                   shutdown_event, handled, textVars, pipelineVars>>

StartAttemptSleepsAlways(ok) ==
    /\ run_pc = "connect"
    /\ connects' = connects + 1
    /\ connected' = ok
    /\ IF ok
       THEN /\ run_pc' = "pidfile"
            /\ UNCHANGED exit_status
       ELSE /\ run_pc' = "retry_sleep"
            /\ UNCHANGED exit_status
    /\ UNCHANGED <<application, attempt, slept, disconnect_invoked,
                   shutdown_event, handled, textVars, pipelineVars>>

\* one pass of "for attempt in range(max_retries)" up to the end of its try
\* block or the start of its sleep: _safe_disconnect, then client.connect
\* returns (ok) or raises
StartAttempt(ok) ==
    /\ run_pc = "connect"
    /\ connects' = connects + 1
    /\ connected' = ok
    /\ IF ok
       THEN /\ run_pc' = "pidfile"
            /\ UNCHANGED exit_status
       ELSE IF attempt < max_retries - 1
            THEN /\ run_pc' = "retry_sleep"
                 /\ UNCHANGED exit_status
       ELSE Except
    /\ UNCHANGED <<application, attempt, slept, disconnect_invoked,
                   shutdown_event, handled, textVars, pipelineVars>>

\* "await asyncio.sleep(retry_delay)" returns and the loop goes on; past the
\* last pass the loop ends and start returns without a session
RetrySleepReturn ==
    /\ run_pc = "retry_sleep"
    /\ slept' = slept + retry_delay
    /\ attempt' = attempt + 1
    /\ run_pc' = IF attempt + 1 < max_retries THEN "connect" ELSE "pidfile"
    /\ UNCHANGED <<application, connects, connected, disconnect_invoked,
                   shutdown_event, handled, exit_status, textVars,
                   pipelineVars>>

\* the pid file is written, or open raises
WritePidFile ==
    /\ run_pc = "pidfile"
    /\ \/ /\ run_pc' = "polling"
          /\ UNCHANGED exit_status
       \/ Except
    /\ UNCHANGED <<application, attempt, connects, slept, connected,
                   disconnect_invoked, shutdown_event, handled, textVars,
                   pipelineVars>>

\* run_polling gives a channel post to handle_channel_post
HandleUpdate ==
    /\ run_pc = "polling"
    /\ handled < MaxHandled
    /\ handled' = handled + 1
    /\ UNCHANGED <<run_pc, application, attempt, connects, slept, connected,
                   disconnect_invoked, shutdown_event, exit_status, textVars,
                   pipelineVars>>

\* run_polling returns, or raises
PollingEnds ==
    /\ run_pc = "polling"
    /\ \/ /\ run_pc' = "cleanup"
          /\ exit_status' = 0
       \/ Except
    /\ UNCHANGED <<application, attempt, connects, slept, connected,
                   disconnect_invoked, shutdown_event, handled, textVars,
                   pipelineVars>>

\* SourceBot.cleanup up to image_searcher.cleanup: application.stop returns,
\* or raises and ends the process with a traceback
CleanupStop ==
    /\ run_pc = "cleanup"
    /\ \/ /\ run_pc' = "disconnect"
          /\ UNCHANGED exit_status
       \/ /\ application = "built"
          /\ run_pc' = "exited"
          /\ exit_status' = 1
    /\ UNCHANGED <<application, attempt, connects, slept, connected,
                   disconnect_invoked, shutdown_event, handled, textVars,
                   pipelineVars>>

\* image_searcher.cleanup: mtproto_client.disconnect, which disconnects a
\* connected client; the pid file is removed and run ends
CleanupDisconnect ==
    /\ run_pc = "disconnect"
    /\ disconnect_invoked' = TRUE
    /\ connected' = FALSE
    /\ run_pc' = "exited"
    /\ UNCHANGED <<application, attempt, connects, slept, shutdown_event,
                   handled, exit_status, textVars, pipelineVars>>

\* _signal_handler: SIGTERM, SIGINT or SIGHUP arrives
SignalHandler ==
    /\ run_pc # "exited"
    /\ ~shutdown_event
    /\ shutdown_event' = TRUE
    /\ UNCHANGED <<run_pc, application, attempt, connects, slept, connected,
                   disconnect_invoked, handled, exit_status, textVars,
                   pipelineVars>>

RunNext ==
    \/ BuildApplication
    \/ \E ok \in BOOLEAN : StartAttempt(ok)
    \/ RetrySleepReturn
    \/ WritePidFile
    \/ HandleUpdate
    \/ PollingEnds
    \/ CleanupStop
    \/ CleanupDisconnect
    \/ SignalHandler

RunSpec == RunInit /\ [][RunNext]_vars

\* ------------------------------------------------------------------ claims
\* action-level observations
Forwards(p)    == \E h \in Workers : /\ task[h].pc = "send"
                                     /\ task[h].post = p
                                     /\ next_message_id' = next_message_id + 1
CallsEditor(p) == \E h \in Workers : /\ task[h].pc # "editing"
                                     /\ task'[h].pc = "editing"
                                     /\ task'[h].post = p
Admits(p)      == \E h \in Workers : /\ task[h].pc = "idle"
                                     /\ task'[h].pc = "downloaded"
                                     /\ task'[h].post = p
Dispatches     == queue # <<>> /\ queue' = Tail(queue)

\* C1: whatever new, duplicate and edit events are delivered for a post, an
\* automated caption rewrite is applied to it at most once.
C1_RewrittenAtMostOnce == \A p \in Posts : rewrites[p] <= 1

\* a post was rewritten and a later event for it was turned away as edited
C1_Witness == \E p \in Posts : /\ rewrites[p] = 1
                               /\ intake = "already_edited"
                               /\ delivered = MaxEvents

\* C2: once a human edit event for a post has been delivered, no automated
\* caption rewrite is applied to that post.
C2_NoRewriteAfterHumanEdit ==
    [][\A p \in Posts : p \in human_edits => rewrites'[p] = rewrites[p]]_vars

\* C3: after an edit of post P that was applied or not modified, no event
\* for P is admitted, no image of P is forwarded and CaptionEditor is not
\* called for P again.
C3_LedgerExclusive ==
    [][\A p \in edit_ok :
          ~Admits(p) /\ ~Forwards(p) /\ ~CallsEditor(p)]_vars

\* a post marked by the finalizer whose later event was rejected
C3_Witness == \E p \in Posts : /\ p \in edit_ok
                               /\ rewrites[p] = 0
                               /\ intake = "already_edited"

\* the searches that have forwarded their image and have not returned
Outstanding == {h \in Workers : task[h].pc \in {"poll_sleep", "author"}}

\* C4: a search never returns a source taken from a reply that answers a
\* message forwarded by an earlier search.
C4_NoStaleReplyAccepted ==
    \A h \in Workers :
        task[h].pc = "author" => slot_src \notin 1..(task[h].sent - 1)

\* the late reply to an abandoned request sits in the slot of the next
\* search, which is polling and does not take it
C4_Witness ==
    \E h \in Workers : /\ task[h].pc = "poll_sleep"
                       /\ last_response = "url"
                       /\ slot_src \in 1..(task[h].sent - 1)

\* C5 as stated: at the moment the polling step accepts a reply, its arrival
\* time is at least the submission time and the request is still marked
\* outstanding.
C5_AcceptedWhileOutstanding ==
    \A h \in Workers :
        task[h].pc = "author" =>
            /\ last_response_time >= task[h].search_start_time
            /\ waiting_for_response

\* C5 amended: at the moment the polling step accepts a reply, its arrival
\* time is at least the submission time and the correlation token of the
\* request is still set; the outstanding flag is false, storing the reply
\* having cleared it.
C5_AcceptedAfterSubmission ==
    \A h \in Workers :
        task[h].pc = "author" =>
            /\ last_response_time >= task[h].search_start_time
            /\ current_search_id # None
            /\ ~waiting_for_response

\* a reply that arrived at the very time of the submission is accepted
C5_Witness ==
    \E h \in Workers : /\ task[h].pc = "author"
                       /\ last_response_time = task[h].search_start_time

\* a step that writes an inbound text into the response slot
StoresReply ==
    /\ last_response' # NoText
    /\ \/ last_response' # last_response
       \/ last_response_time' # last_response_time
       \/ slot_src' # slot_src

\* C6: an inbound text is written into the response slot only while a
\* request is outstanding and only if the message answers the last forwarded
\* message; a reply to any other message is not written.
C6_CorrelatedRepliesOnly ==
    [][StoresReply =>
          /\ mt_waiting_for_response
          /\ waiting_for_response
          /\ slot_src' = mt_last_sent_message_id]_vars

\* the reply to the second forward is in the slot (a reply to the first
\* could have been sent as well)
C6_Witness == last_response # NoText /\ slot_src = 2

\* C7: when the wait window ends without a qualifying reply, search returns
\* none with the correlation state reset at every layer: the slot, its time
\* stamp, the outstanding flags and the last forwarded message id.
C7_TimeoutResetsEveryLayer ==
    [][\A h \in Workers :
          (task[h].pc = "poll_sleep" /\ task'[h].pc = "idle") =>
              /\ last_response' = NoText
              /\ last_response_time' = None
              /\ ~waiting_for_response'
              /\ current_search_id' = None
              /\ ~mt_waiting_for_response'
              /\ mt_last_sent_message_id' = None]_vars

\* the states of the coordinator, by the place of the coroutine
Phase(pc) ==
    CASE pc \in {"idle", "downloaded", "editing"}          -> "Idle"
      [] pc \in {"rate_sleep", "auth", "upload", "send"}   -> "Sending"
      [] pc = "poll_sleep"                                 -> "Waiting"
      [] pc = "author"                                     -> "Resolved"

\* Idle -> Sending -> Waiting -> {Resolved, TimedOut} -> Idle; a forward
\* that fails leaves Sending for Idle, and TimedOut is left for Idle within
\* the step that enters it
PhaseSteps == {<<"Idle", "Sending">>, <<"Sending", "Waiting">>,
               <<"Sending", "Idle">>, <<"Waiting", "Resolved">>,
               <<"Waiting", "Idle">>, <<"Resolved", "Idle">>}

\* C8: the coordinator moves along Idle, Sending, Waiting, Resolved or
\* TimedOut, and whenever it is back in Idle the response slot and its time
\* stamp are empty, the outstanding flag is false and the token is cleared.
C8_BackToIdle ==
    [][/\ \A h \in Workers :
             task[h].pc # task'[h].pc =>
                 \/ Phase(task[h].pc) = Phase(task'[h].pc)
                 \/ <<Phase(task[h].pc), Phase(task'[h].pc)>> \in PhaseSteps
       /\ (\A h \in Workers : Phase(task'[h].pc) = "Idle") =>
              /\ last_response' = NoText
              /\ last_response_time' = None
              /\ ~waiting_for_response'
              /\ current_search_id' = None]_vars

\* a search has resolved a source and returned with its state reset
C8_Witness ==
    \E h \in Workers : /\ task[h].pc = "editing"
                       /\ last_response = NoText
                       /\ current_search_id = None
                       /\ next_message_id = 3

\* C9: at no time are two invocations of search between their forward and
\* their exit.
C9_OneSearchOutstanding == Cardinality(Outstanding) <= 1

\* a post arrives while the search for another event is outstanding
C9_Witness == Outstanding # {} /\ queue # <<>>

\* the rejection rules of the intake, in their order
IntakeRules(ev) ==
    << <<"paused", is_paused>>,
       <<"stopped", ev.post[1] \in stopped_channels>>,
       <<"old", ev.date < StartTime>>,
       <<"unmonitored", ev.post[1] \notin MONITORED_CHANNELS>>,
       <<"no_photo", ~ev.photo>>,
       <<"already_edited", ev.post \in edited_posts>>,
       <<"manual_edit", ev.is_edit>> >>

FirstMatch(rules) ==
    IF \E i \in 1..Len(rules) : rules[i][2]
    THEN rules[CHOOSE i \in 1..Len(rules) :
                   /\ rules[i][2]
                   /\ \A j \in 1..(i - 1) : ~rules[j][2]][1]
    ELSE "admit"

\* C10: the intake rejects an event for the first rule that matches, in the
\* order paused, stopped, old, unmonitored, no photo, already edited, edit;
\* it admits the event exactly when no rule matches, and a rejected event
\* starts no pipeline (no forward, no CaptionEditor call).
C10_IntakeOrder ==
    [][Dispatches =>
          /\ intake' = FirstMatch(IntakeRules(Head(queue)))
          /\ Admits(Head(queue).post) => intake' = "admit"
          /\ intake' # "admit" => task' = task]_vars

\* an event of a stopped channel was rejected while the bot was not paused
C10_Witness == intake = "stopped" /\ ~is_paused /\ delivered = MaxEvents

\* an edit event that passes the pause, stopped, age, membership and photo
\* checks and whose post the ledger does not hold
ClaimsLedger(ev) ==
    /\ ev.is_edit
    /\ ~is_paused
    /\ ev.post[1] \notin stopped_channels
    /\ ev.date >= StartTime
    /\ ev.post[1] \in MONITORED_CHANNELS
    /\ ev.photo
    /\ ev.post \notin edited_posts

\* C11: an intake that rejects its event leaves the pause flag, the stopped
\* set, the monitored set and the state of the search coordinator as they
\* were, and leaves the ledger as it was unless the event is an edit that
\* passed the pause, stopped, age, membership and photo checks for a post
\* not yet in the ledger; then exactly that post is added.
C11_IntakeFrame ==
    [][(Dispatches /\ intake' # "admit") =>
          /\ UNCHANGED <<botVars, searcherVars, last_search_time, mtVars>>
          /\ edited_posts' = IF ClaimsLedger(Head(queue))
                              THEN edited_posts \cup {Head(queue).post}
                              ELSE edited_posts]_vars

\* a manual edit was entered in the ledger, and a later event was rejected
\* for another reason with the ledger left alone
C11_Witness ==
    /\ intake \in {"paused", "stopped", "old", "unmonitored", "no_photo"}
    /\ edited_posts # {}
    /\ edit_ok = {}
    /\ delivered = MaxEvents

\* search_image returns None to the handler: the forward failed or the wait
\* window ended (a reply without a qualifying URL keeps the loop polling to
\* the end of the window)
SearchPcs == {"auth", "upload", "send", "poll_sleep"}
ReturnsNoSource(h) ==
    /\ task[h].pc \in SearchPcs
    /\ task'[h].pc \notin SearchPcs \cup {"author"}

\* the permission check or the image download of an admitted event failed
FetchFails == Dispatches /\ intake' = "admit" /\ task' = task

C13_FinalizerMarks ==
    [][\A h \in Workers :
          (task[h].pc = "editing" /\ task'[h] # task[h]) =>
              /\ task'[h].pc = "idle"
              /\ task[h].post \in edited_posts' <=> task[h].post \in edit_ok'
              /\ task[h].post \notin edit_ok' => edited_posts' = edited_posts
              /\ edited_posts' \subseteq edited_posts \cup {task[h].post}]_vars

\* the editor reported "not modified": the post is marked, though no
\* rewrite was applied
C13_Witness ==
    \E p \in Posts : /\ p \in edit_ok
                      /\ p \in edited_posts
                      /\ rewrites[p] = 0
                      /\ DispatcherFree
                      /\ intake = "admit"

\* C14: an image is forwarded to the lookup account no sooner than 2 time
\* units after the previous forward; a search entered less than 2 units
\* after the previous forward sleeps to the end of those 2 units, a search
\* entered later goes on to forward without sleeping, and a sleeping search
\* does not go on before its sleep has ended.
C14_ForwardSpacing ==
    [][\A h \in Workers :
          /\ (Forwards(task[h].post) /\ next_message_id > 1) =>
                 /\ task[h].issued - last_search_time >= 2
                 /\ last_search_time' - last_search_time >= 2
          /\ (task[h].pc = "downloaded" /\ task'[h].pc # "downloaded") =>
                 IF now - last_search_time < 2
                 THEN /\ task'[h].pc = "rate_sleep"
                      /\ task'[h].wake = last_search_time + 2
                 ELSE task'[h].pc = "auth"
          /\ (task[h].pc = "rate_sleep" /\ task'[h].pc # "rate_sleep") =>
                 /\ task'[h].pc = "auth"
                 /\ now >= last_search_time + 2]_vars

\* the second image is being forwarded exactly 2 time units after the first,
\* its search having slept the remainder
C14_Witness ==
    \E h \in Workers : /\ task[h].pc = "send"
                       /\ next_message_id = 2
                       /\ task[h].issued = last_search_time + 2

\* C15: a search that has forwarded its image waits no longer than 8 time
\* units: it polls at one, two, ... time units after the forward, and the
\* poll at 8 units clears the state of the coordinator and returns none.
C15_WaitWindow ==
    [][\A h \in Workers :
          task[h].pc = "poll_sleep" =>
              /\ now - task[h].start_time <= 8
              /\ task[h].wake - task[h].start_time \in 1..8
              /\ task'[h] # task[h] =>
                     /\ now = task[h].wake
                     /\ IF now - task[h].start_time >= 8
                        THEN /\ task'[h].pc = "idle"
                             /\ last_response' = NoText
                             /\ last_response_time' = None
                             /\ ~waiting_for_response'
                             /\ current_search_id' = None
                        ELSE \/ task'[h].pc = "author"
                             \/ /\ task'[h].pc = "poll_sleep"
                                /\ task'[h].wake = now + 1]_vars

\* a search is at the end of its window with nothing in the slot
C15_Witness ==
    \E h \in Workers : /\ task[h].pc = "poll_sleep"
                       /\ now = task[h].start_time + 8
                       /\ last_response = NoText

\* C16: a pass of the polling loop that accepts a reply from which the
\* extractor yields no URL clears the state of the coordinator and returns
\* none; the search does not stay in the loop.
C16_NoUrlReturnsAtOnce ==
    [][\A h \in Workers :
          (/\ task[h].pc = "poll_sleep"
           /\ task'[h] # task[h]
           /\ now - task[h].start_time < 8
           /\ PollAccepts(task[h].search_start_time)
           /\ ExtractSourceUrl(last_response) = NoText) =>
              /\ task'[h].pc = "idle"
              /\ last_response' = NoText
              /\ last_response_time' = None
              /\ ~waiting_for_response'
              /\ current_search_id' = None]_vars

\* the host of a URL: what stands between the scheme and the path
HostPieces == {"e621.net", "E621.NET", "furaffinity.net", "www.", "beta.",
               "twitter.com", "x.com", "mobile.", "bsky.app", "bsky.social",
               "fede", "example.org"}
RECURSIVE HostPrefix(_)
HostPrefix(u) ==
    IF u # <<>> /\ u[1] \in HostPieces
    THEN <<u[1]>> \o HostPrefix(Tail(u)) ELSE <<>>
Host(u) == LowerAll(HostPrefix(Tail(u)))

\* the hosts of the domain table
TableHosts ==
    {<<"e621.net">>, <<"furaffinity.net">>, <<"www.", "furaffinity.net">>,
     <<"beta.", "furaffinity.net">>, <<"twitter.com">>, <<"x.com">>,
     <<"mobile.", "twitter.com">>, <<"bsky.app">>, <<"bsky.social">>}

\* C17: the extractor returns none, or a URL with the scheme http or https
\* whose host is a host of the domain table.
C17_HostInDomainTable ==
    x_pc = "done" =>
        \/ source_url = NoUrl
        \/ /\ source_url[1] \in {"http://", "https://"}
           /\ Host(source_url) \in TableHosts

\* the candidates of a reply text: the URLs its scan takes up, each for the
\* platform it is taken up for
Candidates(msg) ==
    LET ls   == SplitLines(msg, <<>>)
        urls == {MarkdownMatch(ls[i]) : i \in DOMAIN ls}
                \cup UNION {{CleanWord(ls[i][k]) : k \in DOMAIN ls[i]} :
                                i \in DOMAIN ls}
    IN  {u \in urls : StartsWithHttp(u) /\ PlatformOf(u) # "none"}

\* the platforms in the order of their priority
Priority == <<"e621", "furaffinity", "twitter", "bluesky">>
Rank(pl) == CHOOSE i \in DOMAIN Priority : Priority[i] = pl

\* C18: the extractor returns none exactly when the text has no candidate;
\* otherwise it returns a candidate of the platform that comes first in the
\* order e621, FurAffinity, Twitter/X, Bluesky among the platforms that have
\* a candidate, wherever in the text the candidates stand.
C18_PlatformPriority ==
    x_pc = "done" =>
        LET cands == Candidates(message)
        IN  IF cands = {} THEN source_url = NoUrl
            ELSE /\ source_url \in cands
                 /\ \A u \in cands :
                        Rank(PlatformOf(source_url)) <= Rank(PlatformOf(u))

\* the e621 URL is returned although a FurAffinity URL and a Bluesky URL
\* follow it
C18_Witness ==
    /\ x_pc = "done"
    /\ Len(message) = 3
    /\ PlatformOf(CleanWord(message[1])) = "e621"
    /\ PlatformOf(CleanWord(message[2])) = "furaffinity"
    /\ PlatformOf(CleanWord(message[3])) = "bluesky"
    /\ source_url = CleanWord(message[1])

\* C19: every [label](url) substring of the original caption stands in the
\* escaped caption as it was, and no placeholder text is left in it.
C19_LinksPreserved ==
    e_pc = "done" =>
        /\ \A i \in DOMAIN links : Contains(escaped_text, links[i])
        /\ ~Contains(escaped_text, <<"P", "L", "A", "C", "E", "H", "O", "L",
                                     "D", "E", "R">>)

\* the escaped caption with the preserved links taken out
RECURSIVE OutsideLinks(_, _, _)
OutsideLinks(t, ls, n) ==
    IF n > Len(ls) THEN t
    ELSE OutsideLinks(ReplaceAll(t, ls[n], <<"a">>), ls, n + 1)

SpecialChars == {special_chars[i] : i \in DOMAIN special_chars}

\* C20: in the escaped caption every special character outside a preserved
\* link is preceded by exactly one backslash: none is left unescaped and
\* none is escaped twice.
C20_EscapedExactlyOnce ==
    e_pc = "done" =>
        LET t == OutsideLinks(escaped_text, links, 1)
        IN  \A i \in DOMAIN t :
               t[i] \in SpecialChars =>
                   /\ i > 1
                   /\ t[i - 1] = "\\"
                   /\ i > 2 => t[i - 2] # "\\"

\* the number of places of the text t at which pat stands
Occurrences(t, pat) ==
    Cardinality({i \in 1..(Len(t) - Len(pat) + 1) :
                    SubSeq(t, i, i + Len(pat) - 1) = pat})

ScenarioA ==
    /\ pass = 1
    /\ original_caption = <<"Hello">>
    /\ source = [source_url |-> <<"https://", "e621", ".", "net",
                                  "/posts/123">>,
                 author_nickname |-> <<>>]

\* the caption handed to edit_message_caption is the escaped caption, a
\* blank line and the link block, or the link block alone
ComposedAsStated ==
    e_pc = "built"
        => new_caption =
              (IF original_caption # <<>>
               THEN escaped_text \o <<LineBreak, LineBreak>> ELSE <<>>)
              \o <<"[">> \o LinkText(source) \o <<"]", "(">>
              \o source.source_url \o <<")">>

\* C22 as stated: the caption handed to the editor is the escaped original
\* caption, a blank line and the link block (the link block alone for an
\* empty caption), and in Scenario A the label in the brackets is the plain
\* text "by artist".
C22_PlainLabel ==
    /\ ComposedAsStated
    /\ (e_pc = "built" /\ ScenarioA)
           => new_caption = <<"Hello", LineBreak, LineBreak, "[", "by", Space,
                              "artist", "]", "(", "https://", "e621", ".",
                              "net", "/posts/123", ")">>

\* C22 amended: the same composition, and in Scenario A the label in the
\* brackets is "by artist" between two asterisks.
C22_CaptionPassed ==
    /\ ComposedAsStated
    /\ (e_pc = "built" /\ ScenarioA)
           => new_caption = <<"Hello", LineBreak, LineBreak, "[", "*", "by",
                              Space, "artist", "*", "]", "(", "https://",
                              "e621", ".", "net", "/posts/123", ")">>

\* Scenario A has been built, and so has a caption for an empty original
C22_Witness == e_pc = "built" /\ ScenarioA

\* start has not returned yet
Starting == run_pc \in {"build", "connect", "retry_sleep", "pidfile"}

\* the step is a failed attempt to establish the session, the third one
ThirdFailure == run_pc = "connect" /\ connects' = 3 /\ ~connected'

\* C23: the session is attempted at most 3 times; the delay of 2 seconds is
\* waited once between two consecutive attempts and not after the last one;
\* no attempt follows a successful one; the third failure raises, after
\* which the process handles no channel post and ends with status 1; no
\* channel post is handled before start has returned.
C23_StartupRetries ==
    /\ [](/\ connects <= 3
          /\ run_pc = "connect" => slept = 2 * connects
          /\ (run_pc # "connect" /\ connects > 0)
                 => slept = 2 * (connects - 1)
          /\ Starting => handled = 0)
    /\ [][/\ connected => connects' = connects
          /\ ThirdFailure => (run_pc' = "cleanup" /\ exit_status' = 1)
          /\ exit_status = 1 => (exit_status' = 1 /\ handled' = handled)]_vars

\* the third attempt has failed and run is in its finally clause
C23_Witness ==
    /\ run_pc = "cleanup"
    /\ connects = 3 /\ ~connected
    /\ slept = 4

\* C24: once a shutdown signal has been received, no channel post is given
\* to the pipeline any more.
C24_NoEventAfterSignal == [][shutdown_event => handled' = handled]_vars

\* C25: whenever run has ended, disconnect of the messaging session has been
\* invoked.
C25_DisconnectOnEveryExit == run_pc = "exited" => disconnect_invoked

\* the steps by which a handler goes on along the pipeline
GoesOn == {<<"downloaded", "rate_sleep">>, <<"downloaded", "auth">>,
           <<"rate_sleep", "auth">>, <<"auth", "upload">>,
           <<"upload", "send">>, <<"send", "author">>,
           <<"send", "poll_sleep">>, <<"poll_sleep", "poll_sleep">>,
           <<"poll_sleep", "author">>, <<"author", "editing">>}

\* the handler h takes a step that does not go on along the pipeline: its
\* call (is_authenticated, upload_file, send_message, edit_message_caption)
\* raised, or the wait ran out
Breaks(h) ==
    /\ Active(h)
    /\ task'[h] # task[h]
    /\ <<task[h].pc, task'[h].pc>> \notin GoesOn

\* C26: when a step of the pipeline raises, the handler ends there and the
\* event is dropped: a failure before the edit (permission check, image
\* fetch, search) leaves ledger and captions as they were, after any
\* failure the handler is idle again, and the dispatcher is free to take
\* the next event.
C26_ExceptionsDropEvent ==
    [][/\ \A h \in Workers :
             Breaks(h) =>
                /\ task'[h] = IdleTask
                /\ \A g \in Workers : ~(task'[g].pc # "idle")
                /\ task[h].pc # "editing"
                      => (edited_posts' = edited_posts /\ rewrites' = rewrites)
       /\ FetchFails =>
             /\ \A g \in Workers : task'[g] = IdleTask
             /\ edited_posts' = edited_posts /\ rewrites' = rewrites]_vars

\* the handler of the last event was admitted and has ended before anything
\* was forwarded (its permission check, its image fetch or its search
\* failed), and the next event waits for the free dispatcher
C26_Witness ==
    /\ intake = "admit"
    /\ DispatcherFree
    /\ next_message_id = 1
    /\ queue # <<>>

\* the step is one of search_image: a handler that is inside search_image
\* moves
CoordinatorStep ==
    \E h \in Workers :
       /\ task[h].pc \in {"downloaded", "rate_sleep", "auth", "upload",
                          "send", "poll_sleep", "author"}
       /\ task'[h] # task[h]

\* the step is the transport's handler taking a message of the lookup
\* account: it clears the transport's own flag and moves no handler
TransportStep ==
    /\ mt_waiting_for_response /\ ~mt_waiting_for_response'
    /\ task' = task

\* C27: the response slot (text and time) and the outstanding flag change
\* only in a step of the search coordinator or in a step of the transport's
\* handler for the lookup account; an administrative command, a private
\* message to the bot and the rest of the post pipeline leave them alone.
C27_SlotWriters ==
    [][(\/ last_response' # last_response
        \/ last_response_time' # last_response_time
        \/ waiting_for_response' # waiting_for_response)
          => (CoordinatorStep \/ TransportStep)]_vars

\* the transport has written a text without a URL into the slot and the
\* search goes on polling
C27_Witness ==
    /\ last_response = "nourl" /\ slot_src = 1
    /\ ~waiting_for_response
    /\ \E h \in Workers : task[h].pc = "poll_sleep"

\* C28: the ledger only grows: no step (pause, stop, resume, channel delete,
\* search, failed edit, intake) takes a post out of edited_posts.
C28_LedgerInsertOnly == [][edited_posts \subseteq edited_posts']_vars

\* a post is in the ledger while the process is paused, its channel is
\* stopped and no longer monitored
C28_Witness ==
    /\ edited_posts # {}
    /\ is_paused
    /\ \E p \in edited_posts : /\ p[1] \in stopped_channels
                                /\ p[1] \notin MONITORED_CHANNELS

\* the search of ReplySpec's first state, as Spec reaches it
WaitingSearchReached ==
    /\ now = 3 /\ task[1] = WaitingTask /\ task[2] = IdleTask
    /\ queue = <<>> /\ delivered = 1 /\ human_edits = {}
    /\ ~is_paused /\ stopped_channels = {} /\ MONITORED_CHANNELS = Channels
    /\ edited_posts = {} /\ last_response = NoText
    /\ last_response_time = None /\ waiting_for_response
    /\ current_search_id = 1 /\ slot_src = None /\ last_search_time = 3
    /\ mt_waiting_for_response /\ mt_last_sent_message_id = 1
    /\ next_message_id = 2 /\ intake = "admit"
    /\ rewrites = [p \in Posts |-> 0] /\ edit_ok = {}

\* C29: when the transport hands the coordinator a reply that is empty or
\* longer than 4096 characters, the response slot, its time stamp and the
\* outstanding flag stay as they were, and the search stays in its wait.
C29_InvalidReplyDiscarded ==
    [][(/\ mt_waiting_for_response /\ ~mt_waiting_for_response'
        /\ message_in' \in {"empty", "toolong"})
          => /\ last_response' = last_response
             /\ last_response_time' = last_response_time
             /\ waiting_for_response' = waiting_for_response
             /\ task' = task]_vars

\* an empty or oversized reply was handed over while the coordinator was
\* waiting, and the search sleeps in its polling loop
C29_Witness ==
    /\ message_in \in {"empty", "toolong"}
    /\ waiting_for_response
    /\ \E h \in Workers : task[h].pc = "poll_sleep"

\* C30: a search that waits for a reply leaves its wait only with an
\* accepted reply that holds a source or when 8 time units have passed since
\* it began to wait; a pause or stop command sent meanwhile changes neither
\* the search nor its handler, and a handler that has its source goes on to
\* the caption edit whatever the pause flag and the stopped set are.
C30_WindowIsSoleCancellation ==
    [][/\ \A h \in Workers :
             (task[h].pc = "poll_sleep" /\ task'[h].pc # "poll_sleep")
                => \/ /\ task'[h].pc = "author"
                      /\ last_response = "url"
                      /\ last_response_time >= task[h].search_start_time
                   \/ /\ task'[h] = IdleTask
                      /\ now - task[h].start_time >= 8
       /\ (\/ pending' # pending
           \/ is_paused' # is_paused
           \/ stopped_channels' # stopped_channels)
             => (task' = task /\ searcherVars' = searcherVars
                 /\ rewrites' = rewrites)
       /\ \A h \in Workers :
             (task[h].pc = "author" /\ task'[h] # task[h])
                => task'[h].pc = "editing"]_vars

\* a command was sent while the search was in flight, and the handler has
\* reached its caption edit with the command still in the queue
C30_Witness ==
    /\ pending # <<>>
    /\ ~is_paused /\ stopped_channels = {}
    /\ \E h \in Workers : task[h].pc = "editing"

\* a URL with a scheme and a platform
Qualifies(u) == StartsWithHttp(u) /\ PlatformOf(u) # "none"

\* C31: a line with a qualifying markdown link contributes that link and
\* nothing else: the words of the line are not tested.
C31_MarkdownLinkOnly ==
    [][(/\ x_pc = "scan" /\ lines # <<>>
        /\ Qualifies(MarkdownMatch(Head(lines))))
          => found_urls' = Record(found_urls, MarkdownMatch(Head(lines)))]_vars

\* the URL the word w of a reply stands for: the URL of a markdown link, or
\* the cleaned word
UrlOfWord(w) ==
    IF w = NewLine THEN NoUrl
    ELSE IF MarkdownMatch(<<w>>) # NoUrl THEN MarkdownMatch(<<w>>)
    ELSE CleanWord(w)

\* the places of the text at which a qualifying URL of the platform pl
\* stands
PlacesOf(msg, pl) ==
    {i \in DOMAIN msg : /\ Qualifies(UrlOfWord(msg[i]))
                        /\ PlatformOf(UrlOfWord(msg[i])) = pl}

\* the last qualifying URL of the platform pl in the text, read line by line
\* and left to right
LastInText(msg, pl) ==
    UrlOfWord(msg[CHOOSE i \in PlacesOf(msg, pl) :
                     \A k \in PlacesOf(msg, pl) : k <= i])

\* C32: when the scan of a reply is over, the candidate kept for a platform
\* that has several qualifying URLs in the text is the last of them.
C32_LastOccurrenceWins ==
    x_pc = "done" =>
        \A pl \in Platforms :
           Cardinality(PlacesOf(message, pl)) > 1
              => found_urls[pl] = LastInText(message, pl)

\* C33: a caption of more than 1000 characters is replaced, before it is
\* escaped or composed, by its first 997 characters followed by an ellipsis
\* marker, which makes 1000 characters; a caption of 1000 characters or
\* fewer is left as it is.
C33_LongCaptionCut ==
    t_pc = "cut" =>
        IF Len(caption) > 1000
        THEN /\ original_caption = SubSeq(caption, 1, 997) \o <<".", ".", ".">>
             /\ Len(original_caption) = 1000
             /\ links = <<>> /\ escaped_text = <<>> /\ new_caption = <<>>
        ELSE original_caption = caption

C33_Witness ==
    /\ t_pc = "cut"
    /\ Len(caption) = 1001
    /\ Len(original_caption) = 1000
    /\ original_caption[997] = "7"
    /\ original_caption[998] = "."

\* the second search after a timeout, with the late reply in its slot and
\* without it, as the pipeline reaches it
SecondCleanReached == ~(SecondInit /\ CleanSlot)
SecondStaleReached == ~(SecondInit /\ StaleSlot)

\* C34: when the transport hands over a reply that answers the message the
\* current search forwarded and that holds a URL of a known platform, while
\* the search is in its wait, the search takes that reply: the slot holds
\* it with its time of arrival, and the next poll accepts it, whatever an
\* earlier search left behind.
C34_CorrelatedReplyTaken ==
    [][\A h \in Workers :
          (/\ task[h].pc = "poll_sleep"
           /\ mt_waiting_for_response /\ ~mt_waiting_for_response'
           /\ mt_last_sent_message_id = task[h].sent
           /\ message_in' = "url")
             => /\ last_response' = "url"
                /\ slot_src' = task[h].sent
                /\ last_response_time' >= task[h].search_start_time]_vars

\* C35: during one invocation of search the response slot is written at
\* most once.  A reply is stored only into an empty slot and only while the
\* coordinator's outstanding flag is set, and storing it clears the flag;
\* the flag is set only by a search on its way to the forward, with the slot
\* empty; so every later reply of the invocation leaves the slot as it is,
\* whatever the stored text holds.
C35_SlotWrittenOnce ==
    [][/\ StoresReply
             => /\ waiting_for_response /\ ~waiting_for_response'
                /\ last_response = NoText
                /\ current_search_id' = current_search_id
       /\ (~waiting_for_response /\ waiting_for_response')
             => /\ last_response' = NoText
                /\ \E h \in Workers :
                      /\ task[h].pc \in {"downloaded", "rate_sleep"}
                      /\ task'[h].pc = "auth"]_vars

\* a reply without a URL is in the slot of the second search, and the
\* transport has since handed over the reply to the second forward, which
\* was dropped
C35_Witness ==
    \E h \in Workers : /\ task[h].pc = "poll_sleep"
                       /\ task[h].sent = 2
                       /\ last_response = "nourl"
                       /\ slot_src = 1
                       /\ ~waiting_for_response
                       /\ ~mt_waiting_for_response

\* a step that ends send_image_to_bot of handler h with an exception
ForwardFails(h) ==
    /\ task[h].pc \in {"auth", "upload", "send"}
    /\ task'[h] = IdleTask

\* C36: the transport's outstanding flag and last forwarded id are cleared
\* by the step that hands a matching inbound message to the callback; they
\* are set only by the step in which a forward completes, to the id of the
\* message forwarded; and they are clear after a forward has failed.
C36_TransportFlags ==
    [][/\ (StoresReply /\ slot_src' # None)
             => (~mt_waiting_for_response' /\ mt_last_sent_message_id' = None)
       /\ (mt_waiting_for_response' /\ mtVars' # mtVars)
             => \E h \in Workers :
                   /\ task[h].pc = "send"
                   /\ task'[h].pc \in {"poll_sleep", "author"}
                   /\ mt_last_sent_message_id' = task'[h].sent
       /\ \A h \in Workers :
             ForwardFails(h)
                => (~mt_waiting_for_response'
                    /\ mt_last_sent_message_id' = None)]_vars

\* the parts of C36 on the inbound message and on the completed forward
C36_HandOverAndCompletion ==
    [][/\ (StoresReply /\ slot_src' # None)
             => (~mt_waiting_for_response' /\ mt_last_sent_message_id' = None)
       /\ (mt_waiting_for_response' /\ mtVars' # mtVars)
             => \E h \in Workers :
                   /\ task[h].pc = "send"
                   /\ task'[h].pc \in {"poll_sleep", "author"}
                   /\ mt_last_sent_message_id' = task'[h].sent]_vars

\* C37: when the permission check finds that the bot cannot edit messages
\* in the channel, or the check raises, or download_image yields no image,
\* the handler has returned: no image is forwarded to the lookup account,
\* the editor is not called and the post is not marked in the ledger.
C37_NoFetchNoPipeline ==
    (bot_member \in {"cannot_edit", "raised"} \/ image_data = "nothing")
       => /\ \A h \in Workers : task[h] = IdleTask
          /\ next_message_id = 1
          /\ ~mt_waiting_for_response /\ mt_last_sent_message_id = None
          /\ current_search_id = None /\ ~waiting_for_response
          /\ last_search_time = 0
          /\ \A p \in Posts : rewrites[p] = 0
          /\ edit_ok = {}
          /\ edited_posts = {}

\* the check raised and the handler has returned, the download not called
C37_Witness ==
    /\ bot_member = "raised"
    /\ image_data = "unset"
    /\ DispatcherFree
    /\ intake = "admit"

\* a new-post event for post p that no gate other than the ledger rejects
PassesGates(ev) ==
    /\ ~ev.is_edit /\ ev.photo /\ ev.date >= StartTime
    /\ ~is_paused
    /\ ev.post[1] \notin stopped_channels
    /\ ev.post[1] \in MONITORED_CHANNELS

\* C38: a search that ends with no source leaves its post out of the
\* ledger, so that a new-post event for the same post would be admitted
\* again; and when such an event is handled after an earlier forward, with
\* the post still unmarked, it is admitted: the handler goes on to the fetch
\* and, the fetch succeeding, to a new search.
C38_NoSourceAdmitsAgain ==
    [][/\ \A h \in Workers :
             ReturnsNoSource(h)
                => /\ task[h].post \notin edited_posts'
                   /\ \A ev \in Events :
                         (ev.post = task[h].post /\ PassesGates(ev)')
                            => IntakeFilter(ev)' = "admit"
       /\ (/\ Dispatches
           /\ PassesGates(Head(queue))
           /\ Head(queue).post \notin edited_posts
           /\ last_search_time > 0)
             => /\ intake' = "admit"
                /\ task' = task \/ Admits(Head(queue).post)]_vars

\* the post is forwarded a second time, unmarked and not rewritten; the
\* reply to the first forward came only after the second search had begun,
\* so the first search ended with no source
C38_Witness ==
    \E h \in Workers : /\ task[h].pc = "poll_sleep"
                       /\ task[h].sent = 2
                       /\ task[h].post = <<1, 1>>
                       /\ mt_last_sent_message_id = 2
                       /\ slot_src = 1
                       /\ delivered = 2
                       /\ edited_posts = {}
                       /\ rewrites[<<1, 1>>] = 0

Next ==
    \/ \E ev \in Events : Deliver(ev)
    \/ \E h \in Workers : HandleChannelPost(h)
    \/ \E h \in Workers : SearchEntry(h)
    \/ \E h \in Workers : RateLimitWake(h)
    \/ \E h \in Workers : IsAuthenticatedReturn(h)
    \/ \E h \in Workers : UploadReturn(h)
    \/ \E h \in Workers : SendReturn(h)
    \/ \E h \in Workers : PollWake(h)
    \/ \E h \in Workers : AuthorReturn(h)
    \/ \E h \in Workers : EditReturn(h)
    \/ \E r \in 0..MaxEvents : BotReply(r)
    \/ \E t \in Texts : PrivateReply(t)
    \/ PauseBot
    \/ \E c \in Channels : StopChannel(c)
    \/ \E c \in Channels : ResumeChannel(c)
    \/ \E c \in Channels : AddChannel(c)
    \/ \E c \in Channels : DeleteChannel(c)
    \/ Tick

Spec == Init /\ [][Next]_vars

====
